---- MODULE Spec2Model ----
(***************************************************************************)
(* Model of MTP::ConcurrentSender (mtproto/concurrent_sender.cpp): the     *)
(* request map, the closures scheduled onto the main thread through        *)
(* with_instance, the RPCDoneHandler / RPCFailHandler adapters invoked by  *)
(* the MTP Instance, and the continuations handed to the runner.           *)
(***************************************************************************)
EXTENDS Integers, Sequences, FiniteSets, TLC

\* ---------------------------------------------------------------- bounds
\* the number of calls made into the sender by its owner (send, cancel,
\* cancelAll) and by the Instance (adapter invocations)
MaxOps == 3

\* ---------------------------------------------------------------- values
\* every send consumes one call of the budget, so no id exceeds MaxOps
RequestIds == 1..MaxOps
Policies == {"Simple", "HandleFlood"}
Bytes == {"OK", "BAD"}
NoBytes == "none"

\* An RPCError as the adapters see it: the Instance's two classification
\* predicates and the error type.
EngineErrors == [type : {"RPC"}, handled : BOOLEAN, flood : BOOLEAN]
NoError == [type |-> "NONE", handled |-> FALSE, flood |-> FALSE]
ParseFailed == [type |-> "RESPONSE_PARSE_FAILED", handled |-> FALSE, flood |-> FALSE]

isDefaultHandledError(error) == error.handled
isFloodError(error) == error.flood

VARIABLES
    nextId,       \* next value GetNextRequestId() returns
    alive,        \* the ConcurrentSender exists (its weak pointers are valid)
    requests,     \* _requests: requestId -> Handlers
    mainQueue,    \* closures given to crl::on_main by with_instance, FIFO
    engineReqs,   \* requests the Instance got by sendSerialized: id -> adapters
    engineLog,    \* calls made on the Instance, in order
    runnerQueue,  \* continuations given to _runner and not yet executed
    calls,        \* invocations of the caller's done / fail handlers, in order
    propagated,   \* an exception left senderRequestDone
    lastAdapter,  \* the last adapter invocation and what RPCFailHandler returned
    ops,          \* number of calls made into the sender so far
    terminal,     \* history: the operation that removed each id from the map
    tpc           \* per thread: the unsynchronised map operation it is inside

vars == <<nextId, alive, requests, mainQueue, engineReqs, engineLog,
          runnerQueue, calls, propagated, lastAdapter, ops, terminal, tpc>>

Threads == {"t1", "t2"}
Idle == [op |-> "idle", id |-> 0, found |-> FALSE, owner |-> 0]

\* ------------------------------------------------------------ the map
EmptyMap == [k \in {} |-> [owner |-> 0]]

\* base::flat_map::emplace: inserts unless the key is present
Emplace(reqs, requestId, handlers) ==
    IF requestId \in DOMAIN reqs
    THEN reqs
    ELSE [k \in DOMAIN reqs \cup {requestId} |->
             IF k = requestId THEN handlers ELSE reqs[k]]

\* base::flat_map::erase
Erase(reqs, requestId) ==
    [k \in DOMAIN reqs \ {requestId} |-> reqs[k]]

\* faulty variant of Take: the entry is read but left in the map
TakeKeeps(reqs, requestId) == reqs

\* faulty variant of Take: the whole map is dropped with the entry
TakeAll(reqs, requestId) == EmptyMap

\* the removal half of base::flat_map::take
Take(reqs, requestId) == Erase(reqs, requestId)

\* the ascending sequence of the keys of the map (flat_map iteration order)
RECURSIVE KeysInOrder(_)
KeysInOrder(S) ==
    IF S = {} THEN <<>>
    ELSE LET m == CHOOSE x \in S : \A y \in S : x <= y
         IN <<m>> \o KeysInOrder(S \ {m})

Zeros(n) == [i \in 1..n |-> 0]

\* ------------------------------------------------------------ handlers
DoneCall(handlers, requestId, result) ==
    [fn |-> "onDone", owner |-> handlers.owner, id |-> requestId,
     bytes |-> result, error |-> NoError]

FailCall(handlers, requestId, error) ==
    [fn |-> "onFail", owner |-> handlers.owner, id |-> requestId,
     bytes |-> NoBytes, error |-> error]

\* the caller's done handler throws MTP::Exception on a payload it cannot parse
OnDoneThrows(handlers, result) == result = "BAD"

\* faulty variant of DoneInvocations: no catch clause, the failure is not redirected
DoneInvocationsNoCatch(handlers, requestId, result) ==
    <<DoneCall(handlers, requestId, result)>>

\* the handler invocations senderRequestDone makes for a present entry
DoneInvocations(handlers, requestId, result) ==
    IF OnDoneThrows(handlers, result)
    THEN <<DoneCall(handlers, requestId, result),
           FailCall(handlers, requestId, ParseFailed)>>
    ELSE <<DoneCall(handlers, requestId, result)>>

\* does the exception of the done handler leave senderRequestDone
DonePropagates(handlers, result) == FALSE

\* ------------------------------------------------------------ Init
Init ==
    /\ nextId = 1
    /\ alive = TRUE
    /\ requests = EmptyMap
    /\ mainQueue = <<>>
    /\ engineReqs = [k \in {} |-> [policy |-> "Simple", after |-> 0]]
    /\ engineLog = <<>>
    /\ runnerQueue = <<>>
    /\ calls = <<>>
    /\ propagated = FALSE
    /\ lastAdapter = [kind |-> "none", id |-> 0, error |-> NoError, ret |-> FALSE]
    /\ ops = 0
    /\ terminal = [id \in RequestIds |-> "none"]
    /\ tpc = [t \in Threads |-> Idle]

\* ------------------------------------------------------------ closures
\* faulty variant of ScheduleOnMain: the new closure runs before the older ones
ScheduleOnMainFirst(queue, closure) == <<closure>> \o queue

\* crl::on_main in with_instance: the closure joins the main thread's queue
ScheduleOnMain(queue, closure) == Append(queue, closure)

\* faulty variant of NextRequestId: the counter is not advanced
NextRequestIdReused(id) == id

\* the counter behind GetNextRequestId after it returned id
NextRequestId(id) == id + 1

SendClosure(requestId, policy, afterRequestId) ==
    [op |-> "send", id |-> requestId, policy |-> policy,
     after |-> afterRequestId, list |-> <<>>]

CancelClosure(list) ==
    [op |-> "cancel", id |-> 0, policy |-> "Simple", after |-> 0, list |-> list]

\* the vector senderRequestCancelAll builds: constructed with size() elements,
\* then every key appended
CancelAllList(reqs) ==
    Zeros(Cardinality(DOMAIN reqs)) \o KeysInOrder(DOMAIN reqs)

\* faulty variant of CancelList: the closure captures nothing
CancelListEmpty(requestId) == <<>>

\* the list captured by the closure of senderRequestCancel
CancelList(requestId) == <<requestId>>

\* the Instance calls made by a cancel closure, one per element of its list
CancelCalls(list) ==
    [i \in 1..Len(list) |-> [call |-> "cancel", id |-> list[i], after |-> 0]]

SendCall(c) == [call |-> "send", id |-> c.id, after |-> c.after]

\* faulty variant of HasInstance: the pointer is used without the null test
HasInstanceUnchecked(inst) == TRUE

\* with_instance: the closure body runs only if MainInstance() is non-null
HasInstance(inst) == inst

\* faulty variant of WeakGet: the continuation never finds the sender
WeakGetNever(isAlive) == FALSE

\* weak.get() in the continuations: non-null while the sender exists
WeakGet(isAlive) == isAlive

\* faulty variant of FailSkipped: the default policy lets flood errors through as well
FailSkippedSimpleChecksFlood(policy, error) ==
    isDefaultHandledError(error) /\ ~isFloodError(error)

\* faulty variant of FailSkipped: nothing is ever swallowed
FailSkippedNever(policy, error) == FALSE

\* faulty variant of FailSkipped: HandleFlood swallows flood errors like the default
FailSkippedIgnoresFlood(policy, error) == isDefaultHandledError(error)

\* RPCFailHandler: does the adapter return false without scheduling anything
FailSkipped(policy, error) ==
    IF policy = "Simple"
    THEN isDefaultHandledError(error)
    ELSE IF policy = "HandleFlood"
         THEN isDefaultHandledError(error) /\ ~isFloodError(error)
         ELSE FALSE

DoneContinuation(requestId, result) ==
    [kind |-> "done", id |-> requestId, bytes |-> result, error |-> NoError]

FailContinuation(requestId, error) ==
    [kind |-> "fail", id |-> requestId, bytes |-> NoBytes, error |-> error]

\* history: the first operation that removed each of ids from the map
Mark(term, ids, op) ==
    [id \in RequestIds |-> IF id \in ids /\ term[id] = "none" THEN op ELSE term[id]]

RemoveAt(q, i) == [j \in 1..(Len(q) - 1) |-> IF j < i THEN q[j] ELSE q[j + 1]]

\* ------------------------------------------------------------ sender operations
\* faulty variant of senderRequestRegister: the handlers are never stored
senderRequestRegisterSkipped(requestId, handlers) == UNCHANGED requests

\* senderRequestRegister
senderRequestRegister(requestId, handlers) ==
    requests' = Emplace(requests, requestId, handlers)

\* senderRequestDone, called by a continuation on a live sender
senderRequestDone(requestId, result) ==
    IF requestId \in DOMAIN requests
    THEN /\ requests' = Take(requests, requestId)
         /\ calls' = calls \o DoneInvocations(requests[requestId], requestId, result)
         /\ propagated' = (propagated \/ DonePropagates(requests[requestId], result))
    ELSE UNCHANGED <<requests, calls, propagated>>

\* faulty variant of senderRequestFail: the handler is called without the lookup
senderRequestFailNoCheck(requestId, error) ==
    /\ requests' = Take(requests, requestId)
    /\ calls' = Append(calls, FailCall([owner |-> requestId], requestId, error))
    /\ UNCHANGED propagated

\* senderRequestFail, called by a continuation on a live sender
senderRequestFail(requestId, error) ==
    IF requestId \in DOMAIN requests
    THEN /\ requests' = Take(requests, requestId)
         /\ calls' = Append(calls, FailCall(requests[requestId], requestId, error))
         /\ UNCHANGED propagated
    ELSE UNCHANGED <<requests, calls, propagated>>

\* faulty variant of senderRequestCancelAll: the Instance is not told
senderRequestCancelAllLocalOnly ==
    /\ requests' = EmptyMap
    /\ UNCHANGED mainQueue

\* faulty variant of senderRequestCancelAll: the map is copied, not taken
senderRequestCancelAllKeepsMap ==
    /\ UNCHANGED requests
    /\ mainQueue' = ScheduleOnMain(mainQueue, CancelClosure(CancelAllList(requests)))

\* senderRequestCancelAll: take the whole map, schedule the cancels
senderRequestCancelAll ==
    /\ requests' = EmptyMap
    /\ mainQueue' = ScheduleOnMain(mainQueue, CancelClosure(CancelAllList(requests)))

\* ------------------------------------------------------------ actions
\* RequestBuilder::send
Send(policy, afterRequestId) ==
    /\ alive
    /\ ops < MaxOps
    /\ ops' = ops + 1
    /\ senderRequestRegister(nextId, [owner |-> nextId])
    /\ mainQueue' = ScheduleOnMain(mainQueue, SendClosure(nextId, policy, afterRequestId))
    /\ nextId' = NextRequestId(nextId)
    /\ UNCHANGED <<alive, engineReqs, engineLog, runnerQueue, calls,
                   propagated, lastAdapter, terminal, tpc>>

\* senderRequestCancel
Cancel(requestId) ==
    /\ alive
    /\ ops < MaxOps
    /\ requests' = Erase(requests, requestId)
    /\ mainQueue' = ScheduleOnMain(mainQueue, CancelClosure(CancelList(requestId)))
    /\ ops' = ops + 1
    /\ terminal' = Mark(terminal, {requestId} \cap DOMAIN requests, "cancel")
    /\ UNCHANGED <<nextId, alive, engineReqs, engineLog, runnerQueue,
                   calls, propagated, lastAdapter, tpc>>

\* senderRequestCancelAll called by the owner of the sender
CancelAll ==
    /\ alive
    /\ ops < MaxOps
    /\ senderRequestCancelAll
    /\ ops' = ops + 1
    /\ terminal' = Mark(terminal, DOMAIN requests, "cancelAll")
    /\ UNCHANGED <<nextId, alive, engineReqs, engineLog, runnerQueue,
                   calls, propagated, lastAdapter, tpc>>

\* faulty variant of Detach: the Instance is told, as senderRequestCancel does
DetachNotifies(requestId) ==
    /\ alive
    /\ requests' = Erase(requests, requestId)
    /\ mainQueue' = ScheduleOnMain(mainQueue, CancelClosure(CancelList(requestId)))
    /\ terminal' = Mark(terminal, {requestId} \cap DOMAIN requests, "detach")
    /\ UNCHANGED <<nextId, alive, engineReqs, engineLog,
                   runnerQueue, calls, propagated, lastAdapter, ops, tpc>>

\* senderRequestDetach
Detach(requestId) ==
    /\ alive
    /\ requests' = Erase(requests, requestId)
    /\ terminal' = Mark(terminal, {requestId} \cap DOMAIN requests, "detach")
    /\ UNCHANGED <<nextId, alive, mainQueue, engineReqs, engineLog,
                   runnerQueue, calls, propagated, lastAdapter, ops, tpc>>

\* ~ConcurrentSender: cancel everything, then the weak pointers go invalid
Destroy ==
    /\ alive
    /\ senderRequestCancelAll
    /\ alive' = FALSE
    /\ terminal' = Mark(terminal, DOMAIN requests, "destroy")
    /\ UNCHANGED <<nextId, engineReqs, engineLog, runnerQueue, calls,
                   propagated, lastAdapter, ops, tpc>>

\* faulty variant of OnMain: a send closure is skipped when its id is no
\* longer registered
OnMainSkipsForgotten(inst) ==
    /\ mainQueue # <<>>
    /\ LET c == Head(mainQueue) IN
       /\ mainQueue' = Tail(mainQueue)
       /\ IF HasInstance(inst) /\ (c.op = "send" => c.id \in DOMAIN requests)
          THEN IF c.op = "send"
               THEN /\ engineLog' = Append(engineLog, SendCall(c))
                    /\ engineReqs' =
                         [k \in DOMAIN engineReqs \cup {c.id} |->
                            IF k = c.id
                            THEN [policy |-> c.policy, after |-> c.after]
                            ELSE engineReqs[k]]
               ELSE /\ engineLog' = engineLog \o CancelCalls(c.list)
                    /\ UNCHANGED engineReqs
          ELSE UNCHANGED <<engineReqs, engineLog>>
    /\ UNCHANGED <<nextId, alive, requests, runnerQueue, calls,
                   propagated, lastAdapter, ops, terminal, tpc>>

\* the main thread runs the oldest closure scheduled by with_instance;
\* inst is what MainInstance() returns at that moment
OnMain(inst) ==
    /\ mainQueue # <<>>
    /\ LET c == Head(mainQueue) IN
       /\ mainQueue' = Tail(mainQueue)
       /\ IF HasInstance(inst)
          THEN IF c.op = "send"
               THEN /\ engineLog' = Append(engineLog, SendCall(c))
                    /\ engineReqs' =
                         [k \in DOMAIN engineReqs \cup {c.id} |->
                            IF k = c.id
                            THEN [policy |-> c.policy, after |-> c.after]
                            ELSE engineReqs[k]]
               ELSE /\ engineLog' = engineLog \o CancelCalls(c.list)
                    /\ UNCHANGED engineReqs
          ELSE UNCHANGED <<engineReqs, engineLog>>
    /\ UNCHANGED <<nextId, alive, requests, runnerQueue, calls,
                   propagated, lastAdapter, ops, terminal, tpc>>

\* faulty variant of RPCDoneHandler: senderRequestDone is called on the
\* Instance's thread instead of being handed to the runner
RPCDoneHandlerDirect(requestId, result) ==
    /\ requestId \in DOMAIN engineReqs
    /\ ops < MaxOps
    /\ ops' = ops + 1
    /\ IF WeakGet(alive)
       THEN senderRequestDone(requestId, result)
       ELSE UNCHANGED <<requests, calls, propagated>>
    /\ terminal' = IF WeakGet(alive)
                   THEN Mark(terminal, {requestId} \cap DOMAIN requests, "done")
                   ELSE terminal
    /\ lastAdapter' = [kind |-> "done", id |-> requestId, error |-> NoError,
                       ret |-> TRUE]
    /\ UNCHANGED <<nextId, alive, mainQueue, engineReqs, engineLog,
                   runnerQueue, tpc>>

\* RPCDoneHandler::operator(): the Instance delivers a response
RPCDoneHandler(requestId, result) ==
    /\ requestId \in DOMAIN engineReqs
    /\ ops < MaxOps
    /\ ops' = ops + 1
    /\ runnerQueue' = Append(runnerQueue, DoneContinuation(requestId, result))
    /\ lastAdapter' = [kind |-> "done", id |-> requestId, error |-> NoError,
                       ret |-> TRUE]
    /\ UNCHANGED <<nextId, alive, requests, mainQueue, engineReqs,
                   engineLog, calls, propagated, terminal, tpc>>

\* RPCFailHandler::operator(): the Instance delivers an error
RPCFailHandler(requestId, error) ==
    /\ requestId \in DOMAIN engineReqs
    /\ ops < MaxOps
    /\ ops' = ops + 1
    /\ LET policy == engineReqs[requestId].policy
           skipped == FailSkipped(policy, error) IN
       /\ runnerQueue' = IF skipped THEN runnerQueue
                         ELSE Append(runnerQueue, FailContinuation(requestId, error))
       /\ lastAdapter' = [kind |-> "fail", id |-> requestId, error |-> error,
                          ret |-> ~skipped]
    /\ UNCHANGED <<nextId, alive, requests, mainQueue, engineReqs,
                   engineLog, calls, propagated, terminal, tpc>>

\* the runner executes one of the continuations it was given
RunContinuation(i) ==
    /\ i \in 1..Len(runnerQueue)
    /\ runnerQueue' = RemoveAt(runnerQueue, i)
    /\ LET c == runnerQueue[i] IN
       IF WeakGet(alive)
       THEN IF c.kind = "done"
            THEN senderRequestDone(c.id, c.bytes)
            ELSE senderRequestFail(c.id, c.error)
       ELSE UNCHANGED <<requests, calls, propagated>>
    /\ terminal' = IF WeakGet(alive)
                   THEN Mark(terminal, {runnerQueue[i].id} \cap DOMAIN requests,
                             runnerQueue[i].kind)
                   ELSE terminal
    /\ UNCHANGED <<nextId, alive, mainQueue, engineReqs, engineLog,
                   lastAdapter, ops, tpc>>

Next ==
    \/ \E p \in Policies, a \in 0..(nextId - 1) : Send(p, a)
    \/ \E id \in RequestIds : Cancel(id)
    \/ CancelAll
    \/ \E id \in RequestIds : Detach(id)
    \/ Destroy
    \/ \E inst \in BOOLEAN : OnMain(inst)
    \/ \E id \in RequestIds, b \in Bytes : RPCDoneHandler(id, b)
    \/ \E id \in RequestIds, e \in EngineErrors : RPCFailHandler(id, e)
    \/ \E i \in 1..MaxOps : RunContinuation(i)

Spec == Init /\ [][Next]_vars

\* ------------------------------------------------------------ runner contract
\* The runner passed to the sender executes every continuation it is given:
\* a continuation that stays queued is eventually run.
\* The requests are submitted without ordering dependency while the Instance
\* exists, so that each of them reaches the Instance and can be answered, and
\* with the HandleFlood policy, under which RPCFailHandler both skips errors
\* (handled, not flood) and forwards them (flood, or not handled).
NextLive ==
    \/ Send("HandleFlood", 0)
    \/ \E id \in RequestIds : Cancel(id)
    \/ CancelAll
    \/ \E id \in RequestIds : Detach(id)
    \/ Destroy
    \/ OnMain(TRUE)
    \/ \E id \in RequestIds, b \in Bytes : RPCDoneHandler(id, b)
    \/ \E id \in RequestIds, e \in EngineErrors : RPCFailHandler(id, e)
    \/ \E i \in 1..MaxOps : RunContinuation(i)

SpecLive ==
    Init /\ [][NextLive]_vars /\ \A i \in 1..MaxOps : WF_vars(RunContinuation(i))

\* ------------------------------------------------------------ unsynchronised callers
\* The sender takes no lock: when its operations are called from different
\* threads, the lookup in _requests and the removal that follows it are two
\* separate accesses, and another thread may run between them.
ThreadOps == {"done", "fail", "cancel", "detach"}
ThreadError == [type |-> "RPC", handled |-> FALSE, flood |-> FALSE]

\* a thread enters senderRequestDone / Fail / Cancel / Detach and looks the id up
ThreadLookup(t, op, requestId) ==
    /\ alive
    /\ tpc[t].op = "idle"
    /\ ops < MaxOps
    /\ tpc' = [tpc EXCEPT ![t] =
                 [op |-> op, id |-> requestId,
                  found |-> requestId \in DOMAIN requests,
                  owner |-> IF requestId \in DOMAIN requests
                            THEN requests[requestId].owner ELSE 0]]
    /\ ops' = ops + 1
    /\ UNCHANGED <<nextId, alive, requests, mainQueue, engineReqs, engineLog,
                   runnerQueue, calls, propagated, lastAdapter, terminal>>

\* the thread removes the entry it found and finishes the operation
ThreadFinish(t) ==
    /\ tpc[t].op # "idle"
    /\ LET me == tpc[t]
           handlers == [owner |-> me.owner] IN
       /\ requests' = IF me.found THEN Erase(requests, me.id) ELSE requests
       /\ calls' = IF ~me.found THEN calls
                   ELSE IF me.op = "done"
                        THEN calls \o DoneInvocations(handlers, me.id, "OK")
                        ELSE IF me.op = "fail"
                             THEN Append(calls, FailCall(handlers, me.id, ThreadError))
                             ELSE calls
       /\ mainQueue' = IF me.op = "cancel"
                       THEN ScheduleOnMain(mainQueue, CancelClosure(CancelList(me.id)))
                       ELSE mainQueue
       /\ terminal' = IF me.found THEN Mark(terminal, {me.id}, me.op) ELSE terminal
    /\ tpc' = [tpc EXCEPT ![t] = Idle]
    /\ UNCHANGED <<nextId, alive, engineReqs, engineLog, runnerQueue, propagated,
                   lastAdapter, ops>>

NextRace ==
    \/ \E p \in Policies, a \in 0..(nextId - 1) : Send(p, a)
    \/ \E t \in Threads, op \in ThreadOps, id \in RequestIds : ThreadLookup(t, op, id)
    \/ \E t \in Threads : ThreadFinish(t)

SpecRace == Init /\ [][NextRace]_vars

\* ------------------------------------------------------------ helpers of the claims
Range(q) == {q[i] : i \in 1..Len(q)}

\* the positions in calls where handler fn of request id was invoked
CallIdx(fn, id) == {i \in 1..Len(calls) : calls[i].fn = fn /\ calls[i].id = id}

\* the positions in calls where the handler pair registered for id was invoked
PairIdx(id) == {i \in 1..Len(calls) : calls[i].owner = id}

LastQueued == mainQueue'[Len(mainQueue')]

CancelCall(id) == [call |-> "cancel", id |-> id, after |-> 0]

\* ------------------------------------------------------------ C1
\* C1 (as stated): for every request id the caller's onDone is invoked at most
\* once, its onFail at most once, and never both for the same id.
C1_NeverBoth ==
    \A id \in RequestIds :
        /\ Cardinality(CallIdx("onDone", id)) <= 1
        /\ Cardinality(CallIdx("onFail", id)) <= 1
        /\ ~(CallIdx("onDone", id) # {} /\ CallIdx("onFail", id) # {})

\* C1 (amended): onDone is invoked at most once and onFail at most once per id;
\* both are invoked for one id only when onDone failed on an unparseable
\* payload, and then onFail follows it directly with RESPONSE_PARSE_FAILED.
C1_AtMostOnceEach ==
    \A id \in RequestIds :
        /\ Cardinality(CallIdx("onDone", id)) <= 1
        /\ Cardinality(CallIdx("onFail", id)) <= 1
        /\ (CallIdx("onDone", id) # {} /\ CallIdx("onFail", id) # {}) =>
              \E i \in CallIdx("onDone", id) :
                  /\ OnDoneThrows([owner |-> calls[i].owner], calls[i].bytes)
                  /\ i + 1 \in CallIdx("onFail", id)
                  /\ calls[i + 1].error = ParseFailed

\* a request whose onDone failed and was reported through onFail, with a further
\* response for the same id waiting in the runner
C1_Witness ==
    \E id \in RequestIds :
        /\ CallIdx("onDone", id) # {}
        /\ CallIdx("onFail", id) # {}
        /\ \E k \in 1..Len(runnerQueue) : runnerQueue[k].id = id

\* ------------------------------------------------------------ C2
\* C2: when done, fail, cancel and detach for one pending id are executed
\* concurrently by different threads, exactly one of them wins: the handler
\* pair of every id is invoked at most once in every interleaving.
C2_OneWinner ==
    \A id \in RequestIds : Cardinality(PairIdx(id)) <= 1

\* ------------------------------------------------------------ C3
\* C3: the destructor empties the map and schedules a cancel closure naming
\* every id that was pending; that closure, run while the Instance exists,
\* calls Instance::cancel for each id of its list; and once the sender is
\* destroyed no step invokes a handler, whatever is delivered or executed.
C3_DestroyCancelsAndSilences ==
    [][ /\ Destroy =>
             /\ requests' = EmptyMap
             /\ Len(mainQueue') = Len(mainQueue) + 1
             /\ LastQueued.op = "cancel"
             /\ DOMAIN requests \subseteq Range(LastQueued.list)
        /\ (OnMain(TRUE) /\ Head(mainQueue).op = "cancel") =>
             \A id \in Range(Head(mainQueue).list) :
                 \E j \in (Len(engineLog) + 1)..Len(engineLog') :
                     engineLog'[j] = CancelCall(id)
        /\ ~alive => calls' = calls
      ]_vars

\* the sender was destroyed with requests 1 and 2 pending, the Instance got a
\* cancel for both, and a response continuation is waiting in the runner
C3_Witness ==
    /\ ~alive
    /\ \A id \in {1, 2} : terminal[id] = "destroy" /\ CancelCall(id) \in Range(engineLog)
    /\ runnerQueue # <<>>
    /\ calls = <<>>

\* ------------------------------------------------------------ C4
\* C4: cancelAll with N pending requests makes exactly N Instance::cancel calls,
\* one per previously pending id and no other.
C4_ExactlyNCancels ==
    [][ CancelAll =>
          LET issued == CancelCalls(LastQueued.list) IN
          /\ Len(issued) = Cardinality(DOMAIN requests)
          /\ {issued[i].id : i \in 1..Len(issued)} = DOMAIN requests
      ]_vars

\* ------------------------------------------------------------ C5
\* C5: cancelAll leaves the map empty, invokes no handler and schedules a
\* cancel closure naming every id that was pending; no handler is ever invoked
\* for an id that cancelAll removed, whatever is delivered for it later.
C5_CancelAllForgets ==
    [][ /\ CancelAll =>
             /\ requests' = EmptyMap
             /\ calls' = calls
             /\ Len(mainQueue') = Len(mainQueue) + 1
             /\ LastQueued.op = "cancel"
             /\ DOMAIN requests \subseteq Range(LastQueued.list)
        /\ \A id \in RequestIds :
             terminal'[id] = "cancelAll" =>
                 /\ id \notin DOMAIN requests'
                 /\ \A i \in 1..Len(calls') : calls'[i].id # id
      ]_vars

\* cancelAll removed a request, the Instance was told to cancel it, and a
\* response for it is waiting in the runner of the live sender
C5_Witness ==
    \E id \in RequestIds :
        /\ alive
        /\ terminal[id] = "cancelAll"
        /\ CancelCall(id) \in Range(engineLog)
        /\ \E k \in 1..Len(runnerQueue) : runnerQueue[k].id = id

\* ------------------------------------------------------------ C6
\* the ids handed towards the Instance: in a scheduled send closure, given to
\* the Instance, or carried by a continuation
HandedOver ==
    {mainQueue[k].id : k \in {j \in 1..Len(mainQueue) : mainQueue[j].op = "send"}}
    \cup DOMAIN engineReqs
    \cup {engineLog[k].id : k \in {j \in 1..Len(engineLog) : engineLog[j].call = "send"}}
    \cup {runnerQueue[k].id : k \in 1..Len(runnerQueue)}

\* C6: every id that has been scheduled for or given to the Instance, or that a
\* continuation carries, was registered first: it is in the map unless a
\* terminal operation removed it.
C6_RegisteredBeforeHandOff ==
    \A id \in HandedOver :
        /\ id < nextId
        /\ id \in DOMAIN requests \/ terminal[id] # "none"

\* the Instance has a request that is still registered and a response for it
\* is waiting in the runner
C6_Witness ==
    \E id \in DOMAIN engineReqs :
        /\ id \in DOMAIN requests
        /\ \E k \in 1..Len(runnerQueue) : runnerQueue[k].id = id

\* ------------------------------------------------------------ C7
\* C7 (as stated): an error that is both generically handled and a flood error
\* is forwarded (continuation scheduled, reported consumed) under every policy.
C7_FloodAlwaysForwarded ==
    [][ \A id \in RequestIds, e \in EngineErrors :
          (isDefaultHandledError(e) /\ isFloodError(e) /\ RPCFailHandler(id, e)) =>
              /\ lastAdapter'.ret
              /\ runnerQueue' = Append(runnerQueue, FailContinuation(id, e))
      ]_vars

\* C7 (amended): an error that is both generically handled and a flood error is
\* forwarded (continuation scheduled, reported consumed) under HandleFlood;
\* under the default policy it is swallowed and reported not consumed.
C7_FloodForwardedOnlyUnderHandleFlood ==
    [][ \A id \in RequestIds, e \in EngineErrors :
          (isDefaultHandledError(e) /\ isFloodError(e) /\ RPCFailHandler(id, e)) =>
              /\ engineReqs[id].policy = "HandleFlood" =>
                    /\ lastAdapter'.ret
                    /\ runnerQueue' = Append(runnerQueue, FailContinuation(id, e))
              /\ engineReqs[id].policy = "Simple" =>
                    /\ ~lastAdapter'.ret
                    /\ runnerQueue' = runnerQueue
      ]_vars

\* a generically handled flood error was delivered for a pending request of the
\* default policy and swallowed: reported not consumed, nothing scheduled
C7_Witness ==
    /\ lastAdapter.kind = "fail"
    /\ isDefaultHandledError(lastAdapter.error) /\ isFloodError(lastAdapter.error)
    /\ engineReqs[lastAdapter.id].policy = "Simple"
    /\ lastAdapter.id \in DOMAIN requests
    /\ ~lastAdapter.ret
    /\ runnerQueue = <<>>

\* ------------------------------------------------------------ C8
\* C8: under the default policy a generically handled error makes the adapter
\* return "not consumed", schedule nothing, invoke nothing and leave the map as
\* it is; so no continuation and no onFail call ever carries a generically
\* handled error for a request of the default policy.
C8_DefaultSwallowsHandled ==
    [][ /\ \A id \in RequestIds, e \in EngineErrors :
             (isDefaultHandledError(e) /\ RPCFailHandler(id, e)
                 /\ engineReqs[id].policy = "Simple") =>
                 /\ ~lastAdapter'.ret
                 /\ runnerQueue' = runnerQueue
                 /\ calls' = calls
                 /\ requests' = requests
        /\ \A k \in 1..Len(runnerQueue') :
             (runnerQueue'[k].kind = "fail"
                 /\ engineReqs'[runnerQueue'[k].id].policy = "Simple") =>
                 ~isDefaultHandledError(runnerQueue'[k].error)
        /\ \A i \in 1..Len(calls') :
             (calls'[i].fn = "onFail" /\ calls'[i].id \in DOMAIN engineReqs'
                 /\ engineReqs'[calls'[i].id].policy = "Simple") =>
                 ~isDefaultHandledError(calls'[i].error)
      ]_vars

\* a generically handled error was delivered for a pending request of the
\* default policy: not consumed, nothing in the runner, the id still pending
C8_Witness ==
    /\ lastAdapter.kind = "fail"
    /\ isDefaultHandledError(lastAdapter.error)
    /\ engineReqs[lastAdapter.id].policy = "Simple"
    /\ ~lastAdapter.ret
    /\ lastAdapter.id \in DOMAIN requests
    /\ runnerQueue = <<>>
    /\ calls = <<>>

\* ------------------------------------------------------------ C9
\* C9: under HandleFlood a generically handled flood error is scheduled and
\* reported consumed, a generically handled non-flood error is swallowed; and
\* the fail continuation, run on a live sender with the id still pending,
\* invokes onFail(id, error).
C9_HandleFloodEscalatesFlood ==
    [][ /\ \A id \in RequestIds, e \in EngineErrors :
             (isDefaultHandledError(e) /\ RPCFailHandler(id, e)
                 /\ engineReqs[id].policy = "HandleFlood") =>
                 IF isFloodError(e)
                 THEN /\ lastAdapter'.ret
                      /\ runnerQueue' = Append(runnerQueue, FailContinuation(id, e))
                 ELSE /\ ~lastAdapter'.ret
                      /\ runnerQueue' = runnerQueue
                      /\ calls' = calls
        /\ \A i \in 1..Len(runnerQueue) :
             (RunContinuation(i) /\ runnerQueue[i].kind = "fail" /\ alive
                 /\ runnerQueue[i].id \in DOMAIN requests) =>
                 calls' = Append(calls,
                     [fn |-> "onFail", owner |-> requests[runnerQueue[i].id].owner,
                      id |-> runnerQueue[i].id, bytes |-> NoBytes,
                      error |-> runnerQueue[i].error])
      ]_vars

\* onFail of a HandleFlood request was invoked with a generically handled
\* flood error
C9_Witness ==
    \E i \in 1..Len(calls) :
        /\ calls[i].fn = "onFail"
        /\ isDefaultHandledError(calls[i].error) /\ isFloodError(calls[i].error)
        /\ engineReqs[calls[i].id].policy = "HandleFlood"
        /\ lastAdapter.ret

\* ------------------------------------------------------------ C10
\* C10: when onDone fails on the payload during senderRequestDone, onFail of
\* the same handler pair is invoked exactly once, right after it, with the id
\* and RESPONSE_PARSE_FAILED; the id leaves the map and no exception leaves
\* senderRequestDone.
C10_ParseFailureRedirected ==
    [][ \A i \in 1..Len(runnerQueue) :
          LET c == runnerQueue[i] IN
          (RunContinuation(i) /\ c.kind = "done" /\ alive /\ c.id \in DOMAIN requests
              /\ OnDoneThrows(requests[c.id], c.bytes)) =>
              /\ Len(calls') = Len(calls) + 2
              /\ SubSeq(calls', 1, Len(calls)) = calls
              /\ calls'[Len(calls) + 1].fn = "onDone"
              /\ calls'[Len(calls) + 1].id = c.id
              /\ calls'[Len(calls) + 2] =
                    [fn |-> "onFail", owner |-> requests[c.id].owner, id |-> c.id,
                     bytes |-> NoBytes, error |-> ParseFailed]
              /\ c.id \notin DOMAIN requests'
              /\ ~propagated'
      ]_vars

\* onFail was invoked with RESPONSE_PARSE_FAILED right after the onDone of the
\* same request, which is no longer in the map
C10_Witness ==
    \E i \in 1..Len(calls) :
        /\ calls[i].fn = "onFail"
        /\ calls[i].error = ParseFailed
        /\ i > 1 /\ calls[i - 1].fn = "onDone" /\ calls[i - 1].id = calls[i].id
        /\ calls[i].id \notin DOMAIN requests
        /\ ~propagated

\* ------------------------------------------------------------ C11
\* the map without the entry of id, every other entry as it was
OnlyRemoved(id) ==
    /\ DOMAIN requests' = DOMAIN requests \ {id}
    /\ \A k \in DOMAIN requests' : requests'[k] = requests[k]

\* C11: a continuation that calls senderRequestDone or senderRequestFail on a
\* live sender with an id that is not in the map (the request was completed,
\* failed, cancelled or detached before the continuation ran) invokes no
\* handler, leaves the map as it is and schedules nothing for the Instance.
C11_AbsentIdIsNoOp ==
    [][\A i \in 1..Len(runnerQueue) :
          (/\ alive
           /\ runnerQueue[i].id \notin DOMAIN requests
           /\ RunContinuation(i))
          => /\ calls' = calls
             /\ requests' = requests
             /\ mainQueue' = mainQueue
             /\ engineLog' = engineLog
             /\ propagated' = propagated]_vars

\* a response was queued for a request, the request was cancelled first, and
\* the continuation has since run on the live sender without any handler call
C11_Witness ==
    \E id \in RequestIds :
        /\ alive
        /\ terminal[id] = "cancel"
        /\ lastAdapter.kind = "done" /\ lastAdapter.id = id
        /\ runnerQueue = <<>>
        /\ calls = <<>>
        /\ id \notin DOMAIN requests

\* ------------------------------------------------------------ C12
\* C12: when a continuation completes a registered id on a live sender and the
\* done handler accepts the payload, onDone is invoked with exactly that id and
\* those bytes, it is then the only onDone invocation of the id, onFail of the
\* id has not been invoked, the id has left the map and every other entry is
\* unchanged.
C12_CompleteInvokesOnDoneOnce ==
    [][\A i \in 1..Len(runnerQueue) :
          LET c == runnerQueue[i] IN
          (/\ alive
           /\ c.kind = "done"
           /\ c.id \in DOMAIN requests
           /\ ~OnDoneThrows(requests[c.id], c.bytes)
           /\ RunContinuation(i))
          => /\ calls' = Append(calls, [fn |-> "onDone", owner |-> c.id, id |-> c.id,
                                        bytes |-> c.bytes, error |-> NoError])
             /\ Cardinality({j \in 1..Len(calls') :
                    calls'[j].fn = "onDone" /\ calls'[j].id = c.id}) = 1
             /\ \A j \in 1..Len(calls') :
                    ~(calls'[j].fn = "onFail" /\ calls'[j].id = c.id)
             /\ OnlyRemoved(c.id)]_vars

\* one of two pending requests was completed with a payload its handler
\* accepted; the other is still pending
C12_Witness ==
    \E id \in RequestIds, other \in RequestIds :
        /\ other # id
        /\ CallIdx("onDone", id) # {}
        /\ \A i \in CallIdx("onDone", id) : calls[i].bytes = "OK"
        /\ id \notin DOMAIN requests
        /\ other \in DOMAIN requests

\* ------------------------------------------------------------ C13
\* C13: senderRequestCancel removes the entry of the id at once (if there is
\* one), invokes no handler, leaves every other entry unchanged, calls nothing
\* on the Instance itself and schedules one closure on the main thread whose
\* only Instance call is cancel(id); the same holds for an id that is not in
\* the map.
C13_CancelRemovesAndSchedulesOne ==
    [][\A id \in RequestIds :
          Cancel(id)
          => /\ OnlyRemoved(id)
             /\ calls' = calls
             /\ engineLog' = engineLog
             /\ Len(mainQueue') = Len(mainQueue) + 1
             /\ SubSeq(mainQueue', 1, Len(mainQueue)) = mainQueue
             /\ LastQueued.op = "cancel"
             /\ CancelCalls(LastQueued.list) = <<CancelCall(id)>>]_vars

\* one of two pending requests was cancelled and the Instance has been told;
\* no handler ran and the other request is still pending
C13_Witness ==
    \E id \in RequestIds, other \in RequestIds :
        /\ other # id
        /\ terminal[id] = "cancel"
        /\ id \notin DOMAIN requests
        /\ other \in DOMAIN requests
        /\ CancelCall(id) \in Range(engineLog)
        /\ calls = <<>>

\* ------------------------------------------------------------ C14
\* C14: senderRequestDetach removes the entry of the id (nothing changes if
\* there is none), invokes no handler, leaves every other entry unchanged and
\* schedules no call on the Instance.
C14_DetachIsLocal ==
    [][\A id \in RequestIds :
          Detach(id)
          => /\ OnlyRemoved(id)
             /\ (id \notin DOMAIN requests => requests' = requests)
             /\ calls' = calls
             /\ mainQueue' = mainQueue
             /\ engineLog' = engineLog
             /\ runnerQueue' = runnerQueue]_vars

\* a request the Instance holds was detached: nothing is queued for the main
\* thread, the Instance saw no cancel, no handler ran, the other request stays
C14_Witness ==
    \E id \in RequestIds, other \in RequestIds :
        /\ other # id
        /\ terminal[id] = "detach"
        /\ id \in DOMAIN engineReqs
        /\ id \notin DOMAIN requests
        /\ other \in DOMAIN requests
        /\ mainQueue = <<>>
        /\ CancelCall(id) \notin Range(engineLog)
        /\ calls = <<>>

\* ------------------------------------------------------------ C15
\* C15: the handler invocations change only in a step in which the runner
\* executes a continuation; a step of RPCDoneHandler or RPCFailHandler invokes
\* no handler, leaves the map untouched and at most hands one continuation to
\* the runner.
C15_HandlersOnlyInContinuations ==
    [][/\ (calls' # calls => \E i \in 1..Len(runnerQueue) : RunContinuation(i))
       /\ \A id \in RequestIds, b \in Bytes :
             RPCDoneHandler(id, b)
             => /\ calls' = calls
                /\ requests' = requests
                /\ runnerQueue' = Append(runnerQueue, DoneContinuation(id, b))
       /\ \A id \in RequestIds, e \in EngineErrors :
             RPCFailHandler(id, e)
             => /\ calls' = calls
                /\ requests' = requests
                /\ runnerQueue' \in {runnerQueue,
                                     Append(runnerQueue, FailContinuation(id, e))}]_vars

\* an adapter was invoked for a pending request: its continuation waits for
\* the runner, the request is still in the map and no handler has run
C15_Witness ==
    \E id \in RequestIds :
        /\ lastAdapter.kind # "none" /\ lastAdapter.id = id /\ lastAdapter.ret
        /\ Len(runnerQueue) = 1 /\ runnerQueue[1].id = id
        /\ id \in DOMAIN requests
        /\ calls = <<>>

\* ------------------------------------------------------------ C16
\* C16: when the main thread runs a closure scheduled by send, cancel or
\* cancelAll while MainInstance() is null, no send and no cancel reaches the
\* Instance, and the map is untouched; for a send closure the id had already
\* been returned by send and, if still registered, stays registered.
C16_NoInstanceNoCall ==
    [][(mainQueue # <<>> /\ OnMain(FALSE))
       => /\ engineLog' = engineLog
          /\ engineReqs' = engineReqs
          /\ requests' = requests
          /\ calls' = calls
          /\ (Head(mainQueue).op = "send"
                => /\ Head(mainQueue).id < nextId
                   /\ nextId' = nextId
                   /\ (Head(mainQueue).id \in DOMAIN requests
                         => Head(mainQueue).id \in DOMAIN requests'))]_vars

\* the closure of a send ran without an Instance: the id was returned and is
\* registered, the Instance never heard of it and nothing is left to run
C16_Witness ==
    \E id \in RequestIds :
        /\ id < nextId
        /\ id \in DOMAIN requests
        /\ id \notin DOMAIN engineReqs
        /\ mainQueue = <<>>
        /\ engineLog = <<>>

\* ------------------------------------------------------------ C17
\* the positions in engineLog where the Instance was given request id
SendIdx(id) ==
    {j \in 1..Len(engineLog) : engineLog[j].call = "send" /\ engineLog[j].id = id}

\* the ids whose send closure still waits on the main thread
SendQueued ==
    {mainQueue[j].id : j \in {k \in 1..Len(mainQueue) : mainQueue[k].op = "send"}}

\* C17 (as stated): whenever the Instance is given a request that was built
\* with afterRequestId, it was given the request afterRequestId earlier.
C17_DependencySentFirst ==
    \A j \in 1..Len(engineLog) :
        (engineLog[j].call = "send" /\ engineLog[j].after # 0)
        => \E k \in SendIdx(engineLog[j].after) : k < j

\* C17 (amended): whenever the Instance is given a request that was built
\* with afterRequestId, either it was given the request afterRequestId
\* earlier, or the closure of afterRequestId has already run without an
\* Instance and afterRequestId was never given to it; the dependency is never
\* given to the Instance after the dependent request.
C17_DependencyNeverSentLater ==
    \A j \in 1..Len(engineLog) :
        (engineLog[j].call = "send" /\ engineLog[j].after # 0)
        => /\ engineLog[j].after < engineLog[j].id
           /\ \/ \E k \in SendIdx(engineLog[j].after) : k < j
              \/ /\ SendIdx(engineLog[j].after) = {}
                 /\ engineLog[j].after \notin SendQueued

\* the Instance was given a request and then a request that depends on it
C17_Witness ==
    \E j \in 1..Len(engineLog) :
        /\ engineLog[j].call = "send" /\ engineLog[j].after # 0
        /\ \E k \in SendIdx(engineLog[j].after) : k < j

\* ------------------------------------------------------------ C18
\* C18: the map holds at most one entry per id, the one made when send
\* returned that id (the id was issued, the handlers are those registered with
\* it), and no id that was ever removed from the map is in the map.
C18_NeverReinserted ==
    \A id \in DOMAIN requests :
        /\ id \in 1..(nextId - 1)
        /\ requests[id].owner = id
        /\ terminal[id] = "none"

\* a request was removed by cancelAll and a later send registered another id;
\* the removed id is still absent
C18_Witness ==
    \E id \in RequestIds, other \in RequestIds :
        /\ terminal[id] = "cancelAll"
        /\ id \notin DOMAIN requests
        /\ other \in DOMAIN requests
        /\ other > id

\* ------------------------------------------------------------ C19
\* the first handler invocation made for request id, if there is one
FirstCall(id) ==
    calls[CHOOSE i \in CallIdx("onDone", id) \cup CallIdx("onFail", id) :
            \A j \in CallIdx("onDone", id) \cup CallIdx("onFail", id) : i <= j]

HasCall(id) == CallIdx("onDone", id) \cup CallIdx("onFail", id) # {}

\* the request was cancelled or detached, or its sender was destroyed
Withdrawn(id) ==
    ~alive \/ terminal[id] \in {"cancel", "cancelAll", "detach", "destroy"}

\* a handler was invoked for id, and the first such invocation is not fn(b, e)
OtherFirst(id, fn, b, e) ==
    /\ HasCall(id)
    /\ ~(FirstCall(id).fn = fn /\ FirstCall(id).bytes = b /\ FirstCall(id).error = e)

DoneReached(id, b) ==
    /\ id \notin DOMAIN requests
    /\ HasCall(id)
    /\ FirstCall(id).fn = "onDone" /\ FirstCall(id).bytes = b

FailReached(id, e) ==
    /\ id \notin DOMAIN requests
    /\ HasCall(id)
    /\ FirstCall(id).fn = "onFail" /\ FirstCall(id).error = e

\* C19: under a runner that executes every continuation, once RPCDoneHandler
\* has handed the runner a response for a pending id of a live sender,
\* eventually onDone is invoked for the id with those bytes and the id has
\* left the map, unless the sender is destroyed, the id is cancelled or
\* detached, or another response for the same id is handled first; likewise
\* an error RPCFailHandler forwarded eventually reaches onFail with that error.
C19_ResponseEventuallyHandled ==
    \A id \in RequestIds :
        /\ \A b \in Bytes :
              (/\ alive /\ id \in DOMAIN requests
               /\ DoneContinuation(id, b) \in Range(runnerQueue))
              ~> (DoneReached(id, b) \/ Withdrawn(id) \/ OtherFirst(id, "onDone", b, NoError))
        /\ \A e \in EngineErrors :
              (/\ alive /\ id \in DOMAIN requests
               /\ FailContinuation(id, e) \in Range(runnerQueue))
              ~> (FailReached(id, e) \/ Withdrawn(id) \/ OtherFirst(id, "onFail", NoBytes, e))

\* a response and nothing else was delivered for a request, and its done
\* handler has been invoked with the delivered bytes
C19_Witness ==
    \E id \in RequestIds, b \in Bytes :
        /\ alive
        /\ lastAdapter.kind = "done" /\ lastAdapter.id = id
        /\ runnerQueue = <<>>
        /\ DoneReached(id, b)
        /\ terminal[id] = "done"

\* ------------------------------------------------------------ C20
\* the entry of id was removed by senderRequestCancel, by senderRequestCancelAll
\* or by the destructor
LocallyCancelled(term, id) == term[id] \in {"cancel", "cancelAll", "destroy"}

\* a cancel closure naming id waits on the main thread behind position p
CancelQueuedAfter(id, p) ==
    \E q \in (p + 1)..Len(mainQueue) :
        mainQueue[q].op = "cancel" /\ id \in Range(mainQueue[q].list)

\* no handler is ever invoked for an id that was cancelled locally
CancelledStaysSilent ==
    \A id \in RequestIds :
        LocallyCancelled(terminal', id)
        => \A j \in 1..Len(calls') : calls'[j].id # id /\ calls'[j].owner # id

\* C20 (as stated): when the send closure of an id that was cancelled locally
\* in the meantime comes to run on the main thread, the Instance is given the
\* request, the cancel for the id is still queued behind it, and no handler is
\* ever invoked for the id.
C20_SendAlwaysReachesInstance ==
    [][/\ CancelledStaysSilent
       /\ (/\ mainQueue # <<>>
           /\ Head(mainQueue).op = "send"
           /\ LocallyCancelled(terminal, Head(mainQueue).id))
          => /\ CancelQueuedAfter(Head(mainQueue).id, 1)
             /\ ((\E inst \in BOOLEAN : OnMain(inst))
                   => engineLog' = Append(engineLog, SendCall(Head(mainQueue))))]_vars

\* C20 (amended): when the send closure of an id that was cancelled locally in
\* the meantime comes to run on the main thread, the cancel for the id is still
\* queued behind it; the Instance is given the request if MainInstance() is
\* non-null at that moment, and is given nothing if it is null; no handler is
\* ever invoked for the id.
C20_SendReachesInstanceIfPresent ==
    [][/\ CancelledStaysSilent
       /\ (/\ mainQueue # <<>>
           /\ Head(mainQueue).op = "send"
           /\ LocallyCancelled(terminal, Head(mainQueue).id))
          => /\ CancelQueuedAfter(Head(mainQueue).id, 1)
             /\ (OnMain(TRUE)
                   => engineLog' = Append(engineLog, SendCall(Head(mainQueue))))
             /\ (OnMain(FALSE) => engineLog' = engineLog)]_vars

\* a request was cancelled locally, the Instance was given the request and
\* then the cancel, it answered, and the continuation ran without a handler call
C20_Witness ==
    \E id \in RequestIds :
        /\ terminal[id] = "cancel"
        /\ \E j \in SendIdx(id), k \in 1..Len(engineLog) :
              j < k /\ engineLog[k] = CancelCall(id)
        /\ lastAdapter.kind = "done" /\ lastAdapter.id = id
        /\ runnerQueue = <<>>
        /\ alive
        /\ calls = <<>>

====
